---- MODULE Spec2Model ----
(***************************************************************************)
(* The paper-trading ledger of src/paper.ts (src/unnamed/part_000, lines   *)
(* 118-172): the process-wide `state` object, mark, ensurePos, applyFill,  *)
(* placeOrder, getState and reset.                                         *)
(*                                                                         *)
(* JavaScript numbers are binary floating-point numbers.  A number is      *)
(* modelled by the rational it denotes, [n, d] in lowest terms with d > 0, *)
(* and every arithmetic operation rounds its exact result to the nearest   *)
(* number with Precision significant bits, ties to even, as IEEE-754 does. *)
(* Precision is scaled down from the 53 bits of a double; the exponent is  *)
(* unbounded (no overflow to Infinity, no subnormals).  The value          *)
(* `undefined` of a missing parameter or map entry is the record with      *)
(* d = 0.                                                                  *)
(***************************************************************************)
EXTENDS Integers, Sequences, FiniteSets, TLC

VARIABLES state, call, result, pre, prior

vars == <<state, call, result, pre, prior>>

----------------------------------------------------------------------------
(* Numbers *)

Abs(i) == IF i < 0 THEN -i ELSE i

RECURSIVE GCD(_, _)
GCD(a, b) == IF b = 0 THEN a ELSE GCD(b, a % b)

\* the rational n/d in lowest terms, d # 0
Rat(n, d) ==
  LET g == GCD(Abs(n), Abs(d))
      s == IF d < 0 THEN -1 ELSE 1
  IN  [n |-> (s * n) \div g, d |-> (s * d) \div g]

Num(i) == [n |-> i, d |-> 1]

undefined == [n |-> 0, d |-> 0]

Zero == Num(0)

\* significant bits of a number (53 in a double)
Precision == 11

Pow2(k) == 2 ^ k

\* a / b rounded to the nearest integer, ties to even (a >= 0, b > 0)
RoundHalfEven(a, b) ==
  LET q == a \div b
      r == a % b
  IN  IF 2 * r < b THEN q
      ELSE IF 2 * r > b THEN q + 1
      ELSE IF q % 2 = 0 THEN q ELSE q + 1

\* the least k with a < b * 2^k (a >= b > 0)
RECURSIVE BitsAbove(_, _)
BitsAbove(a, b) == IF a < b THEN 0 ELSE 1 + BitsAbove(a, 2 * b)

\* the least k with a * 2^k >= b (0 < a)
RECURSIVE BitsBelow(_, _)
BitsBelow(a, b) == IF a >= b THEN 0 ELSE 1 + BitsBelow(2 * a, b)

\* the rational x rounded to Precision significant bits
Fl(x) ==
  LET a  == Abs(x.n)
      sg == IF x.n < 0 THEN -1 ELSE 1
      hi == x.d * Pow2(Precision)
      lo == x.d * Pow2(Precision - 1)
  IN  IF a = 0 THEN x
      ELSE IF a >= hi
        THEN LET k == BitsAbove(a, hi)
             IN  Rat(sg * RoundHalfEven(a, x.d * Pow2(k)) * Pow2(k), 1)
      ELSE LET k == BitsBelow(a, lo)
           IN  Rat(sg * RoundHalfEven(a * Pow2(k), x.d), Pow2(k))

\* Number(text) of a decimal literal n/d: the nearest number
Dec(n, d) == Fl(Rat(n, d))

Add(x, y) == Fl(Rat(x.n * y.d + y.n * x.d, x.d * y.d))
Sub(x, y) == Fl(Rat(x.n * y.d - y.n * x.d, x.d * y.d))
Mul(x, y) == Fl(Rat(x.n * y.n, x.d * y.d))
\* x / y; placeOrder and applyFill only divide by non-zero numbers, and a
\* division by zero yields no number
Div(x, y) == IF y.n = 0 THEN undefined ELSE Fl(Rat(x.n * y.d, x.d * y.n))
Gt(x, y)  == x.n * y.d > y.n * x.d
Leq(x, y) == x.n * y.d <= y.n * x.d

\* Math.sign, Math.abs, Math.min
MathSign(x) == IF x.n > 0 THEN 1 ELSE IF x.n < 0 THEN -1 ELSE 0
MathAbs(x) == [n |-> Abs(x.n), d |-> x.d]
MathMin(x, y) == IF Leq(x, y) THEN x ELSE y

\* JavaScript truthiness of a number-or-undefined: undefined and 0 are falsy
Truthy(x) == x.d # 0 /\ x.n # 0

----------------------------------------------------------------------------
(* Configuration and initial state *)

startUSDC == 10000

defaultLev == 2

RecentTrades == 5

Markets == {"BTC_USD", "ETH_USD"}

NoEntries == [m \in {} |-> undefined]

InitState ==
  [balances  |-> [USDC |-> Num(startUSDC)],
   lastPrice |-> NoEntries,
   positions |-> NoEntries,
   trades    |-> <<>>]

----------------------------------------------------------------------------
(* The ledger's functions *)

\* mark(market, price): the state after the call and the value returned
mark(st, market, price) ==
  LET s1 == IF Truthy(price)
              THEN [st EXCEPT !.lastPrice = (market :> price) @@ st.lastPrice]
              ELSE st
  IN  [state |-> s1,
       ret   |-> IF market \in DOMAIN s1.lastPrice
                   THEN s1.lastPrice[market] ELSE undefined]

FlatPosition ==
  [side |-> "flat", base |-> Zero, entry |-> Zero,
   leverage |-> Num(defaultLev), realizedPnl |-> Zero]

ensurePos(st, market) ==
  IF market \notin DOMAIN st.positions
    THEN [st EXCEPT !.positions = (market :> FlatPosition) @@ st.positions]
    ELSE st

sideOf(base) ==
  IF base.n > 0 THEN "long" ELSE IF base.n < 0 THEN "short" ELSE "flat"

\* a faulty variant: the entry price is overwritten by the fill price
applyFillSame_NoAverage(pos, baseDelta, price, lev) ==
  LET newBase == Add(pos.base, baseDelta)
  IN  [pos EXCEPT
         !.entry = IF newBase # Zero THEN price ELSE Zero,
         !.base = newBase,
         !.side = sideOf(newBase),
         !.leverage = lev]

\* applyFill, the branch that opens from flat or adds in the same direction
applyFillSame(pos, baseDelta, price, lev) ==
  LET oldNotional == Mul(MathAbs(pos.base), pos.entry)
      newBase     == Add(pos.base, baseDelta)
      addNotional == Mul(MathAbs(baseDelta), price)
  IN  [pos EXCEPT
         !.entry = IF newBase # Zero
                     THEN Div(Add(oldNotional, addNotional), MathAbs(newBase))
                     ELSE Zero,
         !.base = newBase,
         !.side = sideOf(newBase),
         !.leverage = lev]

\* a faulty variant: a position closed to zero keeps its entry price
applyFillOpposite_KeepEntry(pos, baseDelta, price, lev) ==
  LET reduce     == Mul(MathMin(MathAbs(pos.base), MathAbs(baseDelta)),
                        Num(MathSign(baseDelta)))
      reducedAbs == MathAbs(reduce)
      pnlPerUnit == IF pos.base.n > 0 THEN Sub(price, pos.entry)
                                      ELSE Sub(pos.entry, price)
      p1 == [pos EXCEPT
               !.realizedPnl = Add(pos.realizedPnl, Mul(pnlPerUnit, reducedAbs)),
               !.base = Add(pos.base, baseDelta)]
  IN  IF p1.base = Zero
        THEN [p1 EXCEPT !.side = "flat"]
        ELSE IF MathSign(p1.base) # MathSign(reduce)
               THEN [p1 EXCEPT !.entry = price,
                               !.side = IF p1.base.n > 0 THEN "long" ELSE "short",
                               !.leverage = lev]
               ELSE p1

\* applyFill, the branch for a fill against the position
applyFillOpposite(pos, baseDelta, price, lev) ==
  LET reduce     == Mul(MathMin(MathAbs(pos.base), MathAbs(baseDelta)),
                        Num(MathSign(baseDelta)))
      reducedAbs == MathAbs(reduce)
      pnlPerUnit == IF pos.base.n > 0 THEN Sub(price, pos.entry)
                                      ELSE Sub(pos.entry, price)
      p1 == [pos EXCEPT
               !.realizedPnl = Add(pos.realizedPnl, Mul(pnlPerUnit, reducedAbs)),
               !.base = Add(pos.base, baseDelta)]
  IN  IF p1.base = Zero
        THEN [p1 EXCEPT !.side = "flat", !.entry = Zero]
        ELSE IF MathSign(p1.base) # MathSign(reduce)
               THEN [p1 EXCEPT !.entry = price,
                               !.side = IF p1.base.n > 0 THEN "long" ELSE "short",
                               !.leverage = lev]
               ELSE p1

applyFill(st, market, side, qty, price, lev) ==
  LET s1        == ensurePos(st, market)
      pos       == s1.positions[market]
      dir       == IF side = "buy" THEN 1 ELSE -1
      baseDelta == Mul(Num(dir), qty)
  IN  [s1 EXCEPT !.positions[market] =
         IF pos.base = Zero \/ MathSign(pos.base) = MathSign(baseDelta)
           THEN applyFillSame(pos, baseDelta, price, lev)
           ELSE applyFillOpposite(pos, baseDelta, price, lev)]

\* a faulty variant: the first k records instead of the last k
slice_FromStart(trades, k) ==
  IF Len(trades) <= k THEN trades ELSE SubSeq(trades, 1, k)

\* trades.slice(-5)
slice(trades, k) ==
  IF Len(trades) <= k THEN trades
  ELSE SubSeq(trades, Len(trades) - k + 1, Len(trades))

\* const lev = Number(params.leverage ?? defaultLev)
levOf(params) ==
  IF params.leverage # undefined THEN params.leverage ELSE Num(defaultLev)

\* a faulty variant: size takes precedence over sizeUsd
qtyOf_SizeFirst(params, p) ==
  IF params.size # undefined THEN params.size
  ELSE IF params.sizeUsd # undefined THEN Div(params.sizeUsd, p) ELSE Zero

\* const qty = sizeUsd!=null ? (sizeUsd/p) : Number(params.size ?? 0)
qtyOf(params, p) ==
  IF params.sizeUsd # undefined THEN Div(params.sizeUsd, p)
  ELSE IF params.size # undefined THEN params.size ELSE Zero

Rejection(st, msg) == [state |-> st, result |-> [ok |-> FALSE, error |-> msg]]

\* placeOrder(params): the state after the call and what it returns or throws
placeOrder(st, params) ==
  LET market == params.market
      side   == params.order
      lev    == levOf(params)
      mk     == mark(st, market, params.price)
      s1     == mk.state
      p      == mk.ret
      qty    == qtyOf(params, p)
      notional    == Mul(qty, p)
      maxNotional == Mul(s1.balances.USDC, lev)
      s2     == applyFill(s1, market, side, qty, p, lev)
      pos    == s2.positions[market]
      uPnl   == IF pos.base # Zero
                  THEN Mul(IF pos.base.n > 0 THEN Sub(p, pos.entry)
                                             ELSE Sub(pos.entry, p),
                           MathAbs(pos.base))
                  ELSE Zero
      fill   == [market |-> market, side |-> side, qty |-> qty, price |-> p,
                 notional |-> notional, leverage |-> lev]
      s3     == [s2 EXCEPT !.trades = Append(s2.trades, fill)]
  IN  IF ~Truthy(p) THEN Rejection(s1, "NoPriceAvailable")
      ELSE IF ~Truthy(qty) \/ Leq(qty, Zero) THEN Rejection(s1, "InvalidQuantity")
      ELSE IF Gt(notional, maxNotional) THEN Rejection(s1, "NotionalLimitExceeded")
      ELSE [state  |-> s3,
            result |-> [ok |-> TRUE, market |-> market, side |-> side,
                        qty |-> qty, price |-> p, leverage |-> lev,
                        position |-> [side |-> pos.side, base |-> pos.base,
                                      entry |-> pos.entry,
                                      realizedPnl |-> pos.realizedPnl,
                                      unrealizedPnl |-> uPnl],
                        balances |-> s3.balances,
                        trades |-> slice(s3.trades, RecentTrades)]]

getState(st) == st

\* a faulty variant: the mark prices survive
reset_KeepPrices(st) ==
  [st EXCEPT !.balances.USDC = Num(startUSDC),
             !.positions = NoEntries,
             !.trades = <<>>]

reset(st) ==
  [st EXCEPT !.balances.USDC = Num(startUSDC),
             !.lastPrice = NoEntries,
             !.positions = NoEntries,
             !.trades = <<>>]

----------------------------------------------------------------------------
(* Requests and bounds *)

MaxTrades == 1

MaxFills == 3

MaxRound == 4

MaxHist == 6

Sides == {"buy", "sell"}

\* the request bodies the HTTP layer passes on: every field but market and
\* order may be missing; a price of 0 is a value a caller can send; a
\* notional of 24000 is within the limit at leverage 3 and beyond it at the
\* default leverage
Requests ==
  [market   : Markets,
   order    : Sides,
   price    : {undefined, Num(0), Num(100)},
   size     : {undefined, Num(10)},
   sizeUsd  : {undefined, Num(1000), Num(24000)},
   leverage : {undefined, Num(3)}]

\* priced orders on one market, all within the notional limit, to build up,
\* reduce, close and flip a position
FillRequests ==
  [market   : {"BTC_USD"},
   order    : Sides,
   price    : {Num(100), Num(110)},
   size     : {Num(10)},
   sizeUsd  : {undefined, Num(1000)},
   leverage : {undefined, Num(3)}]

\* orders at the default leverage for longer runs; 0.1 is a price that is
\* no binary fraction
RoundRequests ==
  [market   : {"BTC_USD"},
   order    : Sides,
   price    : {Num(100), Num(110), Dec(1, 10)},
   size     : {Num(3)},
   sizeUsd  : {undefined},
   leverage : {undefined}]

\* a few orders, accepted and rejected, to grow a long history
HistRequests ==
  { [market |-> "BTC_USD", order |-> "buy", price |-> Num(100),
     size |-> Num(10), sizeUsd |-> undefined, leverage |-> undefined],
    [market |-> "ETH_USD", order |-> "sell", price |-> Num(110),
     size |-> undefined, sizeUsd |-> Num(1000), leverage |-> Num(3)],
    [market |-> "BTC_USD", order |-> "sell", price |-> undefined,
     size |-> Num(10), sizeUsd |-> undefined, leverage |-> undefined],
    [market |-> "ETH_USD", order |-> "buy", price |-> Num(100),
     size |-> undefined, sizeUsd |-> undefined, leverage |-> undefined] }

----------------------------------------------------------------------------
(* Actions *)

NoPrior == [accepted |-> FALSE]

\* the position the ledger shows for a market (an absent entry is flat)
PositionOf(st, market) ==
  IF market \in DOMAIN st.positions THEN st.positions[market] ELSE FlatPosition

\* what the next step remembers of this one: for an accepted order, its fill
\* and the position it was applied to
PriorOf ==
  IF call.op = "placeOrder" /\ result.ok
    THEN [accepted |-> TRUE,
          fill     |-> state.trades[Len(state.trades)],
          before   |-> PositionOf(pre, result.market)]
    ELSE NoPrior

Init ==
  /\ state = InitState
  /\ call = [op |-> "init"]
  /\ result = [ok |-> TRUE]
  /\ pre = InitState
  /\ prior = NoPrior

\* one call of placeOrder(params)
Call(params) ==
  LET r == placeOrder(state, params)
  IN  /\ state' = r.state
      /\ result' = r.result
      /\ call' = [op |-> "placeOrder", params |-> params]
      /\ pre' = state
      /\ prior' = PriorOf

PlaceOrder ==
  /\ Len(state.trades) < MaxTrades
  /\ \E params \in Requests : Call(params)

PlaceOrderFills ==
  /\ Len(state.trades) < MaxFills
  /\ \E params \in FillRequests : Call(params)

PlaceOrderRound ==
  /\ Len(state.trades) < MaxRound
  /\ \E params \in RoundRequests : Call(params)

PlaceOrderHist ==
  /\ Len(state.trades) < MaxHist
  /\ \E params \in HistRequests : Call(params)

GetState ==
  /\ state' = state
  /\ result' = [ok |-> TRUE, state |-> getState(state)]
  /\ call' = [op |-> "getState"]
  /\ pre' = state
  /\ prior' = PriorOf

Reset ==
  /\ state' = reset(state)
  /\ result' = [ok |-> TRUE]
  /\ call' = [op |-> "reset"]
  /\ pre' = state
  /\ prior' = PriorOf

Next == PlaceOrder \/ GetState \/ Reset

Spec == Init /\ [][Next]_vars

NextFills == PlaceOrderFills \/ GetState \/ Reset

SpecFills == Init /\ [][NextFills]_vars

NextRound == PlaceOrderRound \/ GetState \/ Reset

SpecRound == Init /\ [][NextRound]_vars

NextHist == PlaceOrderHist \/ GetState \/ Reset

SpecHist == Init /\ [][NextHist]_vars

----------------------------------------------------------------------------
(* Properties *)

Accepted == call.op = "placeOrder" /\ result.ok

Rejected == call.op = "placeOrder" /\ ~result.ok

\* for an accepted order: the position before, the position after, the
\* signed quantity of the fill
Old == PositionOf(pre, result.market)

New == state.positions[result.market]

Delta == IF result.side = "buy" THEN result.qty ELSE Sub(Zero, result.qty)

OpenOrAdd ==
  Accepted /\ (Old.base = Zero \/ MathSign(Old.base) = MathSign(Delta))

Opposing ==
  Accepted /\ Old.base # Zero /\ MathSign(Old.base) # MathSign(Delta)

PartialReduce == Opposing /\ Gt(MathAbs(Old.base), result.qty)

Flip == Opposing /\ Gt(result.qty, MathAbs(Old.base))

\* q units closed at result.price against the old entry price
Booked(q) ==
  Mul(q, IF Old.base.n > 0 THEN Sub(result.price, Old.entry)
                           ELSE Sub(Old.entry, result.price))

\* C1: in every position the ledger stores, side is the sign of base:
\* long iff base > 0, short iff base < 0, flat iff base = 0.
C1_SideIsSignOfBase ==
  \A m \in DOMAIN state.positions :
    LET pos == state.positions[m]
    IN  /\ (pos.side = "long")  <=> (pos.base.n > 0)
        /\ (pos.side = "short") <=> (pos.base.n < 0)
        /\ (pos.side = "flat")  <=> (pos.base.n = 0)

\* C2: after a rejected placeOrder the whole ledger state (balances,
\* lastPrice of every market, positions, trades) is the state before the call.
C2_RejectionLeavesState == Rejected => state = pre

\* C3: a fill against the position that is smaller than it books
\* q * (price - entry) (long) or q * (entry - price) (short), moves base
\* toward zero by q and leaves entry unchanged.
C3_PartialReduction ==
  PartialReduce =>
    /\ New.realizedPnl = Add(Old.realizedPnl, Booked(result.qty))
    /\ New.base = Add(Old.base, Delta)
    /\ MathSign(New.base) = MathSign(Old.base)
    /\ New.entry = Old.entry

\* C4: a fill against the position that is larger than it books PnL on the
\* |base| open units at the old entry and leaves a position in the new
\* direction of size q - |base|, entered at the fill price with the order's
\* leverage.
C4_Flip ==
  Flip =>
    /\ New.realizedPnl = Add(Old.realizedPnl, Booked(MathAbs(Old.base)))
    /\ MathAbs(New.base) = Sub(result.qty, MathAbs(Old.base))
    /\ New.side = (IF result.side = "buy" THEN "long" ELSE "short")
    /\ New.entry = result.price
    /\ New.leverage = result.leverage

\* C5: a fill that opens from flat or adds in the position's direction gives
\* base' = base + delta, entry' = (|base| * entry + |delta| * price) / |base'|
\* and leaves realizedPnl unchanged.
C5_WeightedAverageEntry ==
  OpenOrAdd =>
    /\ New.base = Add(Old.base, Delta)
    /\ New.entry = Div(Add(Mul(MathAbs(Old.base), Old.entry),
                           Mul(MathAbs(Delta), result.price)),
                       MathAbs(New.base))
    /\ New.realizedPnl = Old.realizedPnl

\* a fill was added to a position entered at another price
C5_Witness ==
  /\ OpenOrAdd
  /\ Old.base # Zero
  /\ Old.entry # result.price
  /\ New.entry # result.price
  /\ New.entry # Old.entry

\* C6, as the three checks are worded.  `supplied` says whether the request
\* counts as carrying a price.
ClaimOutcome(st, params, supplied) ==
  LET stored == params.market \in DOMAIN st.lastPrice
      price  == IF supplied THEN params.price
                ELSE IF stored THEN st.lastPrice[params.market] ELSE undefined
      qty    == IF params.sizeUsd # undefined THEN Div(params.sizeUsd, price)
                ELSE params.size
      lev    == IF params.leverage # undefined THEN params.leverage
                ELSE Num(defaultLev)
  IN  IF ~supplied /\ ~stored THEN "NoPriceAvailable"
      ELSE IF ~(qty.d # 0 /\ qty.n > 0) THEN "InvalidQuantity"
      ELSE IF Gt(Mul(qty, price), Mul(st.balances.USDC, lev))
             THEN "NotionalLimitExceeded"
      ELSE "accepted"

\* the last placeOrder ended as `outcome` says: accepted with its fill
\* applied, or rejected for that reason with no fill applied
OutcomeIs(outcome) ==
  /\ result.ok <=> outcome = "accepted"
  /\ ~result.ok => result.error = outcome
  /\ IF result.ok
       THEN /\ Len(state.trades) = Len(pre.trades) + 1
            /\ New.base = Add(Old.base, Delta)
       ELSE /\ state.trades = pre.trades
            /\ state.positions = pre.positions

\* C6 (as stated): placeOrder rejects with NoPriceAvailable when no price is
\* supplied and none is stored, else with InvalidQuantity when the resolved
\* quantity is not positive, else with NotionalLimitExceeded when
\* quantity * price > balance * leverage, and accepts otherwise; any price
\* field present in the request counts as supplied.
C6_ChecksAsStated ==
  call.op = "placeOrder" =>
    OutcomeIs(ClaimOutcome(pre, call.params, call.params.price # undefined))

\* C6 (amended): the same three checks in the same order, where a price
\* counts as supplied only if it is a non-zero number.
C6_ChecksInOrder ==
  call.op = "placeOrder" =>
    OutcomeIs(ClaimOutcome(pre, call.params, Truthy(call.params.price)))

\* an order carrying both size and sizeUsd was rejected for its notional,
\* which sizeUsd alone puts beyond the limit at the default leverage
C6_Witness ==
  /\ Rejected
  /\ result.error = "NotionalLimitExceeded"
  /\ call.params.size # undefined
  /\ call.params.sizeUsd # undefined
  /\ call.params.leverage = undefined
  /\ call.params.price = undefined

\* C7: after reset the balance is the configured starting value and
\* lastPrice, positions and trades are empty; a second reset changes nothing;
\* an order without a price is rejected with NoPriceAvailable on every market.
C7_ResetRestoresInitial ==
  call.op = "reset" =>
    /\ state.balances.USDC = Num(startUSDC)
    /\ DOMAIN state.lastPrice = {}
    /\ DOMAIN state.positions = {}
    /\ state.trades = <<>>
    /\ reset(state) = state
    /\ \A params \in Requests :
         params.price = undefined =>
           placeOrder(state, params).result
             = [ok |-> FALSE, error |-> "NoPriceAvailable"]

\* reset was called on a ledger with a trade, a position and a mark price
C7_Witness ==
  /\ call.op = "reset"
  /\ pre.trades # <<>>
  /\ DOMAIN pre.positions # {}
  /\ DOMAIN pre.lastPrice # {}

\* the last two calls were accepted orders on one market, of opposite sides,
\* with the same quantity and price, the first applied to a flat position
RoundTrip ==
  /\ Accepted
  /\ prior.accepted
  /\ prior.fill.market = result.market
  /\ prior.fill.side # result.side
  /\ prior.fill.qty = result.qty
  /\ prior.fill.price = result.price
  /\ prior.before.base = Zero

\* C8 (as stated): opening from flat and closing with the opposite order of
\* the same quantity at the same price leaves the position flat with base 0,
\* entry 0 and realizedPnl as it was before the pair.
C8_RoundTripIsNeutral ==
  RoundTrip =>
    /\ New.side = "flat"
    /\ New.base = Zero
    /\ New.entry = Zero
    /\ New.realizedPnl = prior.before.realizedPnl

\* the entry price the opening order of a round trip gets: (q * p) / q
RoundTripEntry == Div(Mul(result.qty, result.price), result.qty)

\* C8 (amended): such a pair leaves the position flat with base 0 and entry
\* 0, and adds to realizedPnl q * (p - e) for buy-then-sell, q * (e - p) for
\* sell-then-buy, where e = (q * p) / q is the entry price as the opening
\* computed it; realizedPnl is unchanged whenever e is exactly p.
C8_RoundTripUpToRounding ==
  RoundTrip =>
    LET p == result.price
        e == RoundTripEntry
        residue == Mul(IF prior.fill.side = "buy" THEN Sub(p, e) ELSE Sub(e, p),
                       result.qty)
    IN  /\ New.side = "flat"
        /\ New.base = Zero
        /\ New.entry = Zero
        /\ New.realizedPnl = Add(prior.before.realizedPnl, residue)
        /\ e = p => New.realizedPnl = prior.before.realizedPnl

\* a sell-then-buy round trip, at a price the opening does not reproduce,
\* on a market that had realized PnL before
C8_Witness ==
  /\ RoundTrip
  /\ result.side = "buy"
  /\ prior.before.realizedPnl # Zero
  /\ RoundTripEntry # result.price

\* the Fill an accepted order is to record, from the request and the ledger
\* before the call
ClaimFill(st, params) ==
  LET price == IF Truthy(params.price) THEN params.price
               ELSE st.lastPrice[params.market]
      qty   == IF params.sizeUsd # undefined THEN Div(params.sizeUsd, price)
               ELSE params.size
  IN  [market |-> params.market, side |-> params.order, qty |-> qty,
       price |-> price, notional |-> Mul(qty, price),
       leverage |-> IF params.leverage # undefined THEN params.leverage
                    ELSE Num(defaultLev)]

\* C9: an accepted placeOrder appends exactly one Fill with the order's
\* market, side, quantity, price, notional and leverage and leaves the earlier
\* records as they were; a rejected placeOrder and getState append nothing;
\* the trades returned are the last min(5, length) records of the history.
C9_HistoryAppendOnly ==
  /\ Accepted =>
       /\ state.trades = Append(pre.trades, ClaimFill(pre, call.params))
       /\ LET n == Len(state.trades)
              k == IF n < 5 THEN n ELSE 5
          IN  /\ Len(result.trades) = k
              /\ \A i \in 1..k : result.trades[i] = state.trades[n - k + i]
              /\ result.trades[k] = ClaimFill(pre, call.params)
  /\ Rejected => state.trades = pre.trades
  /\ call.op = "getState" => state.trades = pre.trades

\* an order was accepted on a history already longer than five records, the
\* oldest of which differs from the oldest one returned
C9_Witness ==
  /\ Accepted
  /\ Len(state.trades) > 5
  /\ state.trades[1] # result.trades[1]

\* C10: a fill against the position that only reduces it leaves
\* position.leverage unchanged.
C10_ReduceKeepsLeverage == PartialReduce => New.leverage = Old.leverage

====
